---- MODULE Spec2Model ----
(***************************************************************************)
(* The voice client of src/frontend/src/App.tsx as a state machine: the    *)
(* call button (startCall / endCall), the WebSocket of each call with its  *)
(* onopen / onmessage / onerror / onclose handlers, the playback scheduler *)
(* (playAudioChunk, processAudioQueue and its deferred completion check),  *)
(* the delayed response.create request and the capture callback.           *)
(*                                                                         *)
(* Time is counted in ticks of half a millisecond (12 samples at 24 kHz),  *)
(* so that the 1 ms overlap of playAudioChunk is 2 ticks and a chunk       *)
(* shorter than the overlap exists. audioContext.currentTime and the clock *)
(* of setTimeout are the one variable now; a timer fires at any time at or *)
(* after its due time.                                                     *)
(***************************************************************************)
EXTENDS Integers, Sequences, FiniteSets, TLC

\* ---------------------------------------------------------------- bounds
MaxCalls == 2        \* sockets ever created (startCall runs that get a stream)
MaxChunks == 3       \* audio chunks ever scheduled
MaxTime == 2000      \* the clock stops here
MaxEvents == 3       \* inbound events of the two compared runs
PairMaxTime == 3000  \* the clocks of the two compared runs stop here
TickStep == 1000     \* the clock advances in steps of 500 ms
MaxSockets == 3      \* sockets ever created when the server sends no messages
MaxWindow == 2       \* samples of a capture window
SampleUnit == 4      \* a sample value x stands for the float x / SampleUnit
MaxSample == 12      \* samples range over -MaxSample..MaxSample (floats -3..3)

\* ------------------------------------------------------ program constants
Overlap == 2         \* 0.001 s, in ticks
TimerBuffer == 200   \* the 100 ms added to the completion timer, in ticks
CreateDelay == 2000  \* the 1000 ms delay of response.create, in ticks
NegScale == 32768    \* 0x8000, the factor of a negative sample
PosScale == 32767    \* 0x7FFF, the factor of a sample that is not negative
Int16Min == -32768   \* the least element value of an Int16Array
Int16Max == 32767    \* the greatest element value of an Int16Array
Int16Modulus == 65536

\* Chunk durations (audioBuffer.duration) the server may send, in ticks:
\* 0.5 ms (shorter than the overlap) and 500.5 ms.
Durations == {1, 1001}

NoSocket == 0
SocketIds == 1..MaxSockets

MsgTypes ==
  { "session.created", "session.updated", "response.audio.delta",
    "response.audio.done", "input_audio_buffer.speech_started",
    "input_audio_buffer.speech_stopped", "response.audio_transcript.delta",
    "response.done", "error", "unknown", "unparsable" }

\* An inbound message: its type tag and, for response.audio.delta, the
\* payload: present = FALSE is a missing or empty delta (data.delta is
\* falsy); delta = d is a payload that decodes to d ticks of audio, d = 0 one
\* that decodes to no sample at all (base64 of nothing but white space);
\* ok = FALSE is a payload whose decoding throws (atob on bad base64,
\* Int16Array on an odd byte count). first says that the server sends this
\* chunk as the first audio of a response (the client never reads it:
\* response.created and response.done are not acted on).
Messages ==
  [type : MsgTypes \ {"response.audio.delta"}, present : {FALSE}, delta : {0},
   ok : {TRUE}, first : {FALSE}]
    \cup [type : {"response.audio.delta"}, present : {TRUE}, delta : Durations,
           ok : {TRUE}, first : BOOLEAN]
    \cup [type : {"response.audio.delta"}, present : BOOLEAN, delta : {0},
           ok : {TRUE}, first : {FALSE}]
    \cup [type : {"response.audio.delta"}, present : {TRUE}, delta : {1},
           ok : {FALSE}, first : {FALSE}]

Max(a, b) == IF a >= b THEN a ELSE b
Min(a, b) == IF a <= b THEN a ELSE b

VARIABLES
  connectionState,    \* useState<ConnectionState>
  conversationState,  \* useState<ConversationState>
  wsRef,              \* wsRef.current: a socket id, or NoSocket for null
  audioContext,       \* audioContextRef.current is set
  audioQueue,         \* audioQueueRef.current
  isPlaying,          \* isPlayingRef.current
  nextPlayTime,       \* nextPlayTimeRef.current (PlayCursor)
  now,                \* audioContext.currentTime and the timer clock
  timers,             \* pending setTimeout callbacks
  sock,               \* every WebSocket ever created: its state
  pendingMedia,       \* startCall runs suspended at await getUserMedia
  capture,            \* sockets whose ScriptProcessor callback is installed
  sources,            \* the buffer sources started and not yet finished
  scheduled,          \* how many chunks were ever scheduled (history)
  mounted,            \* the component is mounted
  ended,              \* endCall has returned and startCall was not invoked since (history)
  last,               \* the handler that ran last (history)
  script,             \* two compared runs: the inbound events both receive
  runs,               \* two compared runs: the client state of each
  window,             \* capture conversion: inputData, the samples of a window
  pcm                 \* capture conversion: int16Data, once the window is converted

appVars ==
  << connectionState, conversationState, wsRef, audioContext, audioQueue,
     isPlaying, nextPlayTime, now, timers, sock, pendingMedia, capture,
     sources, scheduled, mounted, ended, last >>

pairVars == << script, runs >>

captureVars == << window, pcm >>

vars == << appVars, pairVars, captureVars >>

\* ------------------------------------------------- the playback scheduler
\* The refs and state the scheduler reads and writes, as one record, so that
\* playAudioChunk, processAudioQueue and the message handler are functions
\* from the record before to the record after. threw says that an exception
\* is propagating (it is FALSE whenever no handler runs).
Sched ==
  [ audioContext |-> audioContext, audioQueue |-> audioQueue,
    isPlaying |-> isPlaying, conversationState |-> conversationState,
    nextPlayTime |-> nextPlayTime, timers |-> timers, sources |-> sources,
    threw |-> FALSE ]

\* A decoded chunk as pushed on audioQueueRef: its duration, and (history)
\* the socket that delivered it.
Chunk(d, ws) == [dur |-> d, call |-> ws]

\* The setTimeout of processAudioQueue, created at cur.
CompletionTimer(cur, timeUntilDone) ==
  [kind |-> "complete", ws |-> NoSocket, due |-> cur + timeUntilDone + TimerBuffer]

\* playAudioChunk: start the chunk at max(currentTime, nextPlayTime) and
\* advance nextPlayTime to the start plus the duration minus the overlap.
\* createBuffer throws for a chunk of no samples.
PlayAudioChunk(p, chunk, cur) ==
  IF ~p.audioContext THEN p
  ELSE IF chunk.dur = 0 THEN [p EXCEPT !.threw = TRUE]
  ELSE LET startTime == Max(cur, p.nextPlayTime)
       IN [p EXCEPT
             !.sources = Append(@, [call |-> chunk.call, start |-> startTime,
                                    dur |-> chunk.dur, ended |-> FALSE]),
             !.nextPlayTime = startTime + chunk.dur - Overlap]

\* The while loop of processAudioQueue: shift and play until the queue is
\* empty, or playAudioChunk throws.
RECURSIVE DrainQueue(_, _)
DrainQueue(p, cur) ==
  IF p.audioQueue = << >> \/ p.threw THEN p
  ELSE DrainQueue(PlayAudioChunk([p EXCEPT !.audioQueue = Tail(@)],
                                 Head(p.audioQueue), cur), cur)

\* processAudioQueue deciding by the device clock, not by isPlaying, whether
\* playback starts anew (a variant that fails C8 as amended).
ProcessAudioQueue_ByClock(p, cur) ==
  IF ~p.audioContext \/ Len(p.audioQueue) = 0 THEN p
  ELSE LET p1 == IF cur >= p.nextPlayTime
                 THEN [p EXCEPT !.isPlaying = TRUE,
                                !.conversationState = "speaking",
                                !.nextPlayTime = cur]
                 ELSE p
           p2 == DrainQueue(p1, cur)
           timeUntilDone == p2.nextPlayTime - cur
       IN IF ~p2.threw /\ timeUntilDone > 0
          THEN [p2 EXCEPT !.timers = @ \cup {CompletionTimer(cur, timeUntilDone)}]
          ELSE p2

\* processAudioQueue leaving the chunks queued while playback is going on
\* (a variant that fails C17 as amended).
ProcessAudioQueue_WaitsWhilePlaying(p, cur) ==
  IF ~p.audioContext \/ Len(p.audioQueue) = 0 \/ p.isPlaying THEN p
  ELSE LET p1 == [p EXCEPT !.isPlaying = TRUE,
                           !.conversationState = "speaking",
                           !.nextPlayTime = cur]
           p2 == DrainQueue(p1, cur)
           timeUntilDone == p2.nextPlayTime - cur
       IN IF ~p2.threw /\ timeUntilDone > 0
          THEN [p2 EXCEPT !.timers = @ \cup {CompletionTimer(cur, timeUntilDone)}]
          ELSE p2

\* processAudioQueue.
ProcessAudioQueue(p, cur) ==
  IF ~p.audioContext \/ Len(p.audioQueue) = 0 THEN p
  ELSE LET p1 == IF ~p.isPlaying
                 THEN [p EXCEPT !.isPlaying = TRUE,
                                !.conversationState = "speaking",
                                !.nextPlayTime = cur]
                 ELSE p
           p2 == DrainQueue(p1, cur)
           timeUntilDone == p2.nextPlayTime - cur
       IN IF ~p2.threw /\ timeUntilDone > 0
          THEN [p2 EXCEPT !.timers = @ \cup {CompletionTimer(cur, timeUntilDone)}]
          ELSE p2

\* The callback of the completion timer.
CompletionCheck(p) ==
  IF Len(p.audioQueue) = 0
  THEN [p EXCEPT !.isPlaying = FALSE, !.conversationState = "idle"]
  ELSE p

\* handleWebSocketMessage with the speech events acted on only while no
\* audio is playing (a variant that fails C6).
HandleWebSocketMessage_QuietOnly(p, m, ws, cur) ==
  CASE m.type = "response.audio.delta" ->
         IF m.present /\ m.ok
         THEN [ProcessAudioQueue(
                 [p EXCEPT !.audioQueue = Append(@, Chunk(m.delta, ws))], cur)
               EXCEPT !.threw = FALSE]
         ELSE p
    [] m.type = "input_audio_buffer.speech_started" /\ ~p.isPlaying ->
         [p EXCEPT !.conversationState = "listening"]
    [] m.type = "input_audio_buffer.speech_stopped" /\ ~p.isPlaying ->
         [p EXCEPT !.conversationState = "thinking"]
    [] OTHER -> p

\* handleWebSocketMessage with an upstream error event ending the playback
\* (a variant that fails C12).
HandleWebSocketMessage_ErrorEnds(p, m, ws, cur) ==
  CASE m.type = "response.audio.delta" ->
         IF m.present /\ m.ok
         THEN [ProcessAudioQueue(
                 [p EXCEPT !.audioQueue = Append(@, Chunk(m.delta, ws))], cur)
               EXCEPT !.threw = FALSE]
         ELSE p
    [] m.type = "input_audio_buffer.speech_started" ->
         [p EXCEPT !.conversationState = "listening"]
    [] m.type = "input_audio_buffer.speech_stopped" ->
         [p EXCEPT !.conversationState = "thinking"]
    [] m.type = "error" ->
         [p EXCEPT !.conversationState = "idle", !.isPlaying = FALSE]
    [] OTHER -> p

\* handleWebSocketMessage, for message m delivered by socket ws at time cur.
\* Its catch block ends an exception of the decoding or of the scheduler.
HandleWebSocketMessage(p, m, ws, cur) ==
  CASE m.type = "response.audio.delta" ->
         IF m.present /\ m.ok
         THEN [ProcessAudioQueue(
                 [p EXCEPT !.audioQueue = Append(@, Chunk(m.delta, ws))], cur)
               EXCEPT !.threw = FALSE]
         ELSE p
    [] m.type = "input_audio_buffer.speech_started" ->
         [p EXCEPT !.conversationState = "listening"]
    [] m.type = "input_audio_buffer.speech_stopped" ->
         [p EXCEPT !.conversationState = "thinking"]
    [] OTHER -> p

\* Write a scheduler record back to the variables.
SetSched(p) ==
  /\ audioQueue' = p.audioQueue
  /\ isPlaying' = p.isPlaying
  /\ conversationState' = p.conversationState
  /\ nextPlayTime' = p.nextPlayTime
  /\ timers' = p.timers
  /\ sources' = p.sources

\* ------------------------------------------------------------ the sockets
\* WebSocket.close(): a connecting or open socket starts closing; its close
\* event comes later. On a closing or closed socket it does nothing.
Close(sk, id) ==
  [sk EXCEPT ![id] = IF @ \in {"connecting", "open"} THEN "closing" ELSE @]

Created == {i \in SocketIds : sock[i] # "none"}

\* The history record of the handler that runs now.
Note(op, ws, type, first) ==
  [op |-> op, ws |-> ws, type |-> type, first |-> first]

\* History of an error or close event of socket id: whether id is the
\* socket wsRef holds when the event arrives.
Standing(id) == IF wsRef = id THEN "current" ELSE "stale"

\* History: endCall has run since these sources were started.
MarkEnded(srcs) == [i \in 1..Len(srcs) |-> [srcs[i] EXCEPT !.ended = TRUE]]

\* History: endCall has run since these response.create timers were armed.
MarkTimers(ts) ==
  {IF t.kind = "create" THEN [t EXCEPT !.ended = TRUE] ELSE t : t \in ts}

\* endCall, run on the socket table sk (the table as the calling handler
\* leaves it). The sources already started and the timers are not touched
\* (but for their history fields).
EndCall(sk) ==
  /\ sock' = IF wsRef # NoSocket THEN Close(sk, wsRef) ELSE sk
  /\ wsRef' = NoSocket
  /\ connectionState' = "disconnected"
  /\ conversationState' = "idle"
  /\ audioQueue' = << >>
  /\ isPlaying' = FALSE
  /\ sources' = MarkEnded(sources)
  /\ timers' = MarkTimers(timers)
  /\ ended' = TRUE

AppInit ==
  /\ connectionState = "disconnected"
  /\ conversationState = "idle"
  /\ wsRef = NoSocket
  /\ audioContext = FALSE
  /\ audioQueue = << >>
  /\ isPlaying = FALSE
  /\ nextPlayTime = 0
  /\ now = 0
  /\ timers = {}
  /\ sock = [i \in SocketIds |-> "none"]
  /\ pendingMedia = 0
  /\ capture = {}
  /\ sources = << >>
  /\ mounted = TRUE
  /\ ended = FALSE
  /\ scheduled = 0
  /\ last = [op |-> "init", ws |-> NoSocket, type |-> "", first |-> FALSE]

\* ------------------------------------------------------------ the actions
\* The sources of srcs that have not played to their end at time t.
Unfinished(srcs, t) == SelectSeq(srcs, LAMBDA s : s.start + s.dur > t)

\* The device clock advances; a source that has played to its end is gone.
Tick ==
  /\ now + TickStep <= MaxTime
  /\ now' = now + TickStep
  /\ sources' = Unfinished(sources, now + TickStep)
  /\ UNCHANGED << connectionState, conversationState, wsRef, audioContext,
                  audioQueue, isPlaying, nextPlayTime, timers, sock,
                  pendingMedia, capture, scheduled, mounted, ended, last,
                  pairVars, captureVars >>

\* The call button while ConnectionState is disconnected: startCall up to
\* its await of getUserMedia, while fewer than n calls were started.
StartCallWithin(n) ==
  /\ mounted
  /\ connectionState = "disconnected"
  /\ Cardinality(Created) + pendingMedia < n
  /\ connectionState' = "connecting"
  /\ audioContext' = TRUE
  /\ pendingMedia' = pendingMedia + 1
  /\ ended' = FALSE
  /\ last' = Note("startCall", NoSocket, "", FALSE)
  /\ UNCHANGED << conversationState, wsRef, audioQueue, isPlaying,
                  nextPlayTime, now, timers, sock, capture, sources, scheduled, mounted,
                  pairVars, captureVars >>

StartCall == StartCallWithin(MaxCalls)

\* getUserMedia resolves: startCall creates the socket and installs its
\* handlers.
GetUserMediaResolve ==
  /\ pendingMedia > 0
  /\ LET id == Cardinality(Created) + 1
     IN /\ sock' = [sock EXCEPT ![id] = "connecting"]
        /\ wsRef' = id
        /\ last' = Note("getUserMedia.resolve", id, "", FALSE)
  /\ pendingMedia' = pendingMedia - 1
  /\ UNCHANGED << connectionState, conversationState, audioContext,
                  audioQueue, isPlaying, nextPlayTime, now, timers, capture,
                  sources, scheduled, mounted, ended,
                  pairVars, captureVars >>

\* The catch block of startCall without its setConnectionState (a variant
\* that fails C10).
GetUserMediaReject_StaysConnecting ==
  /\ pendingMedia > 0
  /\ pendingMedia' = pendingMedia - 1
  /\ last' = Note("getUserMedia.reject", NoSocket, "", FALSE)
  /\ UNCHANGED << connectionState, conversationState, wsRef, audioContext,
                  audioQueue, isPlaying, nextPlayTime, now, timers, sock,
                  capture, sources, scheduled, mounted, ended,
                  pairVars, captureVars >>

\* getUserMedia rejects: the catch block of startCall.
GetUserMediaReject ==
  /\ pendingMedia > 0
  /\ pendingMedia' = pendingMedia - 1
  /\ connectionState' = "disconnected"
  /\ last' = Note("getUserMedia.reject", NoSocket, "", FALSE)
  /\ UNCHANGED << conversationState, wsRef, audioContext, audioQueue,
                  isPlaying, nextPlayTime, now, timers, sock, capture,
                  sources, scheduled, mounted, ended,
                  pairVars, captureVars >>

\* The open event of socket id: onopen sets connected, arms the delayed
\* response.create and starts the capture (startAudioStreaming).
SocketOpen(id) ==
  /\ sock[id] = "connecting"
  /\ sock' = [sock EXCEPT ![id] = "open"]
  /\ connectionState' = "connected"
  /\ timers' = timers \cup {[kind |-> "create", ws |-> id,
                              due |-> now + CreateDelay, ended |-> FALSE]}
  /\ capture' = capture \cup {id}
  /\ last' = Note("onopen", id, "", FALSE)
  /\ UNCHANGED << conversationState, wsRef, audioContext, audioQueue,
                  isPlaying, nextPlayTime, now, pendingMedia, sources, scheduled, mounted, ended,
                  pairVars, captureVars >>

\* A message event of socket id (delivered only while the socket is open).
SocketMessage(id, m) ==
  /\ sock[id] = "open"
  /\ (m.delta # 0 /\ m.ok) => scheduled < MaxChunks
  /\ SetSched(HandleWebSocketMessage(Sched, m, id, now))
  /\ scheduled' = IF m.type = "response.audio.delta" /\ m.delta # 0 /\ m.ok
                  THEN scheduled + 1 ELSE scheduled
  /\ last' = Note("onmessage", id, m.type, m.first)
  /\ UNCHANGED << connectionState, wsRef, audioContext, now, sock,
                  pendingMedia, capture, mounted, ended,
                  pairVars, captureVars >>

\* The connection of socket id fails: the socket is closed and its error
\* and close events are fired one after the other in one task, so onerror
\* and then onclose call endCall. The second endCall finds wsRef null and
\* writes the values the first wrote.
SocketError(id) ==
  /\ sock[id] \in {"connecting", "open", "closing"}
  /\ EndCall([sock EXCEPT ![id] = "closed"])
  /\ last' = Note("onerror", id, Standing(id), FALSE)
  /\ UNCHANGED << audioContext, nextPlayTime, now, pendingMedia,
                  capture, scheduled, mounted,
                  pairVars, captureVars >>

\* The close event of socket id (the server closed it, or the close started
\* by close() completed): onclose calls endCall.
SocketClose(id) ==
  /\ sock[id] \in {"open", "closing"}
  /\ EndCall([sock EXCEPT ![id] = "closed"])
  /\ last' = Note("onclose", id, Standing(id), FALSE)
  /\ UNCHANGED << audioContext, nextPlayTime, now, pendingMedia,
                  capture, scheduled, mounted,
                  pairVars, captureVars >>

\* The call button while ConnectionState is connected: endCall.
ClickEndCall ==
  /\ mounted
  /\ connectionState = "connected"
  /\ EndCall(sock)
  /\ last' = Note("endCall", NoSocket, "", FALSE)
  /\ UNCHANGED << audioContext, nextPlayTime, now, pendingMedia,
                  capture, scheduled, mounted,
                  pairVars, captureVars >>

\* The cleanup of useEffect: endCall on unmount.
Unmount ==
  /\ mounted
  /\ mounted' = FALSE
  /\ EndCall(sock)
  /\ last' = Note("unmount", NoSocket, "", FALSE)
  /\ UNCHANGED << audioContext, nextPlayTime, now, pendingMedia,
                  capture, scheduled,
                  pairVars, captureVars >>

\* A completion timer of processAudioQueue fires.
FireCompletion(t) ==
  /\ t \in timers
  /\ t.kind = "complete"
  /\ now >= t.due
  /\ SetSched([CompletionCheck(Sched) EXCEPT !.timers = @ \ {t}])
  /\ last' = Note("completion", NoSocket, "", FALSE)
  /\ UNCHANGED << connectionState, wsRef, audioContext, now, sock,
                  pendingMedia, capture, scheduled, mounted, ended,
                  pairVars, captureVars >>

\* The delayed response.create of onopen fires: ws.send on the socket of
\* its closure, which discards the message unless the socket is open.
FireResponseCreate(t) ==
  /\ t \in timers
  /\ t.kind = "create"
  /\ now >= t.due
  /\ timers' = timers \ {t}
  /\ last' = Note("response.create", t.ws,
                  IF sock[t.ws] = "open" THEN "sent" ELSE "discarded", FALSE)
  /\ UNCHANGED << connectionState, conversationState, wsRef, audioContext,
                  audioQueue, isPlaying, nextPlayTime, now, sock,
                  pendingMedia, capture, sources, scheduled, mounted, ended,
                  pairVars, captureVars >>

\* onaudioprocess without its test of ws.readyState: every window is handed
\* to ws.send (a variant that fails C13).
OnAudioProcess_Unguarded(id) ==
  /\ id \in capture
  /\ last' = Note("onaudioprocess", id, "sent", FALSE)
  /\ UNCHANGED << connectionState, conversationState, wsRef, audioContext,
                  audioQueue, isPlaying, nextPlayTime, now, timers, sock,
                  pendingMedia, capture, sources, scheduled, mounted, ended,
                  pairVars, captureVars >>

\* onaudioprocess of the capture installed for socket id: one window is
\* sent if the socket is open and dropped otherwise.
OnAudioProcess(id) ==
  /\ id \in capture
  /\ last' = Note("onaudioprocess", id,
                  IF sock[id] = "open" THEN "sent" ELSE "dropped", FALSE)
  /\ UNCHANGED << connectionState, conversationState, wsRef, audioContext,
                  audioQueue, isPlaying, nextPlayTime, now, timers, sock,
                  pendingMedia, capture, sources, scheduled, mounted, ended,
                  pairVars, captureVars >>

\* ----------------------------------------------------- two compared runs
\* Two runs of the client in a call whose socket is open receive the same
\* inbound events (script) in the same order, each on its own clock and with
\* its own timer firings. A run is the scheduler record, the clock, how many
\* events it has received, the handlers it ran (log) and the
\* ConversationState each of them left (trace).
RunIds == {1, 2}

ScriptMessages ==
  {m \in Messages :
     /\ m.ok /\ ~m.first
     /\ \/ m.type = "response.audio.delta" /\ m.delta = 1001
        \/ m.type = "input_audio_buffer.speech_started"
        \/ m.type = "input_audio_buffer.speech_stopped"}

Scripts == UNION {[1..n -> ScriptMessages] : n \in 0..MaxEvents}

Run0 ==
  [ sched |-> [ audioContext |-> TRUE, audioQueue |-> << >>,
                isPlaying |-> FALSE, conversationState |-> "idle",
                nextPlayTime |-> 0, timers |-> {}, sources |-> << >>,
                threw |-> FALSE ],
    now |-> 0, idx |-> 0, log |-> << >>, trace |-> << >> ]

Init ==
  /\ AppInit
  /\ script = << >>
  /\ runs = [r \in RunIds |-> Run0]
  /\ window = << >>
  /\ pcm = << >>

PairInit ==
  /\ AppInit
  /\ script \in Scripts
  /\ runs = [r \in RunIds |-> Run0]
  /\ window = << >>
  /\ pcm = << >>

\* A handler of run r has run and left scheduler record p.
Ran(r, what, p) ==
  [runs[r] EXCEPT !.sched = p,
                  !.log = Append(@, what),
                  !.trace = Append(@, p.conversationState)]

\* Run r receives its next event: onmessage.
PairMessage(r) ==
  /\ runs[r].idx < Len(script)
  /\ LET m == script[runs[r].idx + 1]
         p == HandleWebSocketMessage(runs[r].sched, m, 1, runs[r].now)
     IN runs' = [runs EXCEPT ![r] = [Ran(r, m.type, p) EXCEPT !.idx = @ + 1]]
  /\ UNCHANGED << script, appVars, captureVars >>

\* A completion timer of run r fires.
PairCompletion(r, t) ==
  /\ t \in runs[r].sched.timers
  /\ runs[r].now >= t.due
  /\ LET p == [CompletionCheck(runs[r].sched) EXCEPT !.timers = @ \ {t}]
     IN runs' = [runs EXCEPT ![r] = Ran(r, "completion", p)]
  /\ UNCHANGED << script, appVars, captureVars >>

\* The clock of run r advances.
PairTick(r) ==
  /\ runs[r].now + TickStep <= PairMaxTime
  /\ runs' = [runs EXCEPT ![r].now = @ + TickStep,
                          ![r].sched.sources = Unfinished(@, runs[r].now + TickStep)]
  /\ UNCHANGED << script, appVars, captureVars >>

PairNext ==
  \/ \E r \in RunIds : PairMessage(r)
  \/ \E r \in RunIds : \E t \in runs[r].sched.timers : PairCompletion(r, t)
  \/ \E r \in RunIds : PairTick(r)

SpecPair == PairInit /\ [][PairNext]_vars

\* ------------------------------------------- the conversion of the capture
\* The Float32 to Int16 loop of onaudioprocess on one window, for a socket
\* that is open. A float is a multiple of 1 / SampleUnit.
Samples == (0 - MaxSample)..MaxSample

Windows == UNION {[1..n -> Samples] : n \in 1..MaxWindow}

\* The store into an Int16Array element: the fraction is dropped (towards
\* zero) and the integer is taken modulo 2^16 into the signed range.
TruncDiv(n, d) == IF n >= 0 THEN n \div d ELSE 0 - ((0 - n) \div d)

ToInt16(n) == ((n - Int16Min) % Int16Modulus) + Int16Min

\* The body of the loop without Math.max and Math.min (a variant that fails
\* C14).
FloatToPCM16_Unclamped(x) ==
  ToInt16(TruncDiv(IF x < 0 THEN x * NegScale ELSE x * PosScale, SampleUnit))

\* The body of the loop: clamp to [-1, 1], scale, store.
FloatToPCM16(x) ==
  LET s == Max(0 - SampleUnit, Min(SampleUnit, x))
  IN ToInt16(TruncDiv(IF s < 0 THEN s * NegScale ELSE s * PosScale, SampleUnit))

CaptureInit ==
  /\ AppInit
  /\ script = << >>
  /\ runs = [r \in RunIds |-> Run0]
  /\ window \in Windows
  /\ pcm = << >>

\* onaudioprocess converts the window.
ConvertWindow ==
  /\ pcm = << >>
  /\ pcm' = [i \in 1..Len(window) |-> FloatToPCM16(window[i])]
  /\ UNCHANGED << window, appVars, pairVars >>

SpecCapture == CaptureInit /\ [][ConvertWindow]_vars

Next ==
  \/ Tick
  \/ StartCall
  \/ GetUserMediaResolve
  \/ GetUserMediaReject
  \/ \E id \in SocketIds : SocketOpen(id)
  \/ \E id \in SocketIds : \E m \in Messages : SocketMessage(id, m)
  \/ \E id \in SocketIds : SocketError(id)
  \/ \E id \in SocketIds : SocketClose(id)
  \/ ClickEndCall
  \/ Unmount
  \/ \E t \in timers : FireCompletion(t)
  \/ \E t \in timers : FireResponseCreate(t)
  \/ \E id \in SocketIds : OnAudioProcess(id)

Spec == Init /\ [][Next]_vars

\* The client in calls whose server sends no message: every action but the
\* message handler and the completion timers it arms, with up to MaxSockets
\* calls.
CallsNext ==
  \/ Tick
  \/ StartCallWithin(MaxSockets)
  \/ GetUserMediaResolve
  \/ GetUserMediaReject
  \/ \E id \in SocketIds : SocketOpen(id)
  \/ \E id \in SocketIds : SocketError(id)
  \/ \E id \in SocketIds : SocketClose(id)
  \/ ClickEndCall
  \/ Unmount
  \/ \E t \in timers : FireResponseCreate(t)
  \/ \E id \in SocketIds : OnAudioProcess(id)

SpecCalls == Init /\ [][CallsNext]_vars

\* ------------------------------------------------------------- the claims
Delta == "response.audio.delta"
SpeechStarted == "input_audio_buffer.speech_started"
SpeechStopped == "input_audio_buffer.speech_stopped"

\* The handlers that call endCall.
EndOps == {"endCall", "onerror", "onclose", "unmount"}

\* Every source started has played to its end.
AllFinished == \A i \in 1..Len(sources) : sources[i].start + sources[i].dur <= now

\* C1: when a completion timer has declared completion (isPlaying false,
\* ConversationState idle), the queue is empty and the device clock has
\* passed PlayCursor.
C1_CompletionOnlyWhenDrained ==
  last.op = "completion" =>
    /\ Len(audioQueue) = 0
    /\ now >= nextPlayTime

\* The step schedules a chunk shorter than the overlap (the advance of
\* playAudioChunk alone then moves PlayCursor back).
SchedulesShortChunk ==
  scheduled' > scheduled /\ sources'[Len(sources')].dur < Overlap

\* C2: every step leaves PlayCursor at least as large as it was, and the
\* reset of processAudioQueue (a chunk handled while isPlaying is false)
\* happens only when every chunk scheduled before has finished playing.
\* Stated for the steps that schedule no chunk shorter than the overlap.
C2_PlayCursorMonotone ==
  [][ ~SchedulesShortChunk =>
        /\ nextPlayTime' >= nextPlayTime
        /\ (scheduled' > scheduled /\ ~isPlaying) => AllFinished ]_vars

\* C3: when a chunk is scheduled while the chunk delivered just before it by
\* the same socket is still playing, with no endCall between the two, it
\* starts at that chunk's start plus its duration minus the overlap. Stated
\* for a first chunk no shorter than the overlap and a second chunk that
\* arrives no later than the first's start plus its duration minus the
\* overlap.
C3_Gapless ==
  [][ (scheduled' = scheduled + 1 /\ Len(sources) > 0) =>
        LET first == sources[Len(sources)]
            second == sources'[Len(sources')]
        IN (first.call = second.call /\ ~first.ended
            /\ first.dur >= Overlap
            /\ now <= first.start + first.dur - Overlap) =>
             second.start = first.start + first.dur - Overlap ]_vars

\* The state endCall leaves.
TornDown ==
  /\ Len(audioQueue) = 0
  /\ connectionState = "disconnected"
  /\ conversationState = "idle"
  /\ ~isPlaying
  /\ wsRef = NoSocket

\* C4: once endCall has returned, and until startCall is invoked again, the
\* queue is empty, ConnectionState is disconnected, ConversationState is
\* idle, isPlaying is false and wsRef is null (stated for the mounted
\* component).
C4_TeardownState == (ended /\ mounted) => TornDown

\* C5: when endCall has returned, no chunk scheduled before it is still to
\* start or to finish playing, no timer created before it is pending and no
\* capture callback is installed.
C5_NothingOutlivesTeardown ==
  last.op \in EndOps => (AllFinished /\ timers = {} /\ capture = {})

C7_FirstDeltaSpeaks ==
  (last.op = "onmessage" /\ last.type = Delta /\ last.first)
    => conversationState = "speaking"

\* C9: when speech_started has been handled while the scheduler is active,
\* no chunk received before it is still to start playing.
C9_BargeInDiscards ==
  (last.op = "onmessage" /\ last.type = SpeechStarted /\ isPlaying)
    => \A i \in 1..Len(sources) : sources[i].start <= now

\* C10 as stated: ConnectionState is disconnected all through a startCall
\* whose getUserMedia rejects, so it is disconnected when the rejection
\* arrives.
C10_DisconnectedThroughout ==
  [][ (last'.op = "getUserMedia.reject" /\ pendingMedia' < pendingMedia)
        => connectionState = "disconnected" ]_vars

\* C10 amended: the startCall whose getUserMedia rejects creates no socket
\* and leaves wsRef alone, and ConnectionState is disconnected once the
\* rejection has been handled.
C10_RejectLeavesDisconnected ==
  [][ last'.op = "getUserMedia.reject" =>
        /\ connectionState' = "disconnected"
        /\ sock' = sock
        /\ wsRef' = wsRef ]_vars

\* C10 witness: a rejection was handled and no socket was ever created.
C10_Witness ==
  /\ last.op = "getUserMedia.reject"
  /\ connectionState = "disconnected"
  /\ Created = {}

\* The values a trace goes through: runs of one value count once.
RECURSIVE Values(_)
Values(tr) ==
  IF Len(tr) <= 1 THEN tr
  ELSE IF tr[1] = tr[2] THEN Values(Tail(tr))
  ELSE << tr[1] >> \o Values(Tail(tr))

\* Run r has received every event and has no timer pending.
Quiet(r) == runs[r].idx = Len(script) /\ runs[r].sched.timers = {}

\* C8 as stated: two runs that have received the same events in the same
\* order have gone through the same ConversationState values, whatever
\* their clocks and the firing times of their completion timers.
C8_TimingIndependent ==
  (Quiet(1) /\ Quiet(2)) => Values(runs[1].trace) = Values(runs[2].trace)

\* C8 amended: two runs that have run the same handlers (message handlers
\* and completion-timer callbacks) in the same order have the same
\* ConversationState after each of them, whatever their clocks.
C8_OrderDetermines ==
  runs[1].log = runs[2].log => runs[1].trace = runs[2].trace

\* C8 witness: the two runs ran the same handlers, a completion among them,
\* at different times of their clocks.
C8_Witness ==
  /\ runs[1].log = runs[2].log
  /\ \E i \in 1..Len(runs[1].log) : runs[1].log[i] = "completion"
  /\ runs[1].idx = Len(script)
  /\ Len(script) >= 2
  /\ runs[1].now # runs[2].now
  /\ runs[1].sched.nextPlayTime # runs[2].sched.nextPlayTime

\* The handlers of the error and close events of a socket.
TransportOps == {"onerror", "onclose"}

\* C11: once an error or close event of the socket of the current call has
\* been handled, ConnectionState is disconnected and ConversationState is
\* idle, and the handler that runs next creates no socket unless it is a
\* startCall the user invokes.
C11_FailureIsTerminal ==
  [][ (last.op \in TransportOps /\ last.type = "current") =>
        /\ connectionState = "disconnected"
        /\ conversationState = "idle"
        /\ Created' = Created ]_vars

\* The message types handleWebSocketMessage only logs, and the payload that
\* does not parse.
PassiveTypes ==
  { "error", "session.created", "session.updated", "response.audio.done",
    "response.done", "response.audio_transcript.delta", "unknown",
    "unparsable" }

\* C12: handling a message of type error, session.created, session.updated,
\* response.audio.done, response.done, response.audio_transcript.delta, of
\* an unknown type or with an unparsable payload changes none of
\* ConnectionState, ConversationState, the queue, isPlaying, PlayCursor,
\* wsRef and the state of any socket.
C12_PassiveMessagesChangeNothing ==
  [][ (last'.op = "onmessage" /\ last'.type \in PassiveTypes) =>
        UNCHANGED << connectionState, conversationState, audioQueue,
                     isPlaying, nextPlayTime, wsRef, sock >> ]_vars

\* C12 witness: an error message was handled in a connected call while
\* audio plays, and the call goes on speaking on its open socket.
C12_Witness ==
  /\ last.op = "onmessage" /\ last.type = "error"
  /\ connectionState = "connected" /\ wsRef = last.ws
  /\ sock[last.ws] = "open"
  /\ isPlaying /\ conversationState = "speaking" /\ ~AllFinished

\* C13: a capture callback runs only for a socket that has opened; it sends
\* its window (one input_audio_buffer.append) exactly when that socket is
\* open and drops it otherwise, in particular once endCall has closed the
\* socket; it keeps nothing for later (no timer, no queue, no state changes).
C13_CaptureSendsWhenOpen ==
  [][ last'.op = "onaudioprocess" =>
        /\ last'.ws \in capture
        /\ sock[last'.ws] \in {"open", "closing", "closed"}
        /\ last'.type = IF sock[last'.ws] = "open" THEN "sent" ELSE "dropped"
        /\ UNCHANGED << connectionState, conversationState, wsRef, audioQueue,
                        isPlaying, timers, sock, capture >> ]_vars

\* C13 witness: a window was captured after endCall had closed the socket
\* of the call, and was dropped.
C13_Witness ==
  /\ last.op = "onaudioprocess" /\ last.type = "dropped"
  /\ sock[last.ws] = "closing" /\ ended /\ wsRef = NoSocket

\* C14: every converted sample lies in the signed 16-bit range and is the
\* clamped sample scaled: -32768 for a sample of -1 or less, 32767 for a
\* sample of 1 or more, the sample times 32768 for a negative sample and
\* times 32767 otherwise, with the fraction dropped.
C14_Clamped ==
  \A i \in 1..Len(pcm) :
    LET x == window[i]
    IN /\ pcm[i] \in Int16Min..Int16Max
       /\ x <= 0 - SampleUnit => pcm[i] = Int16Min
       /\ x >= SampleUnit => pcm[i] = Int16Max
       /\ (0 - SampleUnit < x /\ x < 0) => pcm[i] = TruncDiv(x * NegScale, SampleUnit)
       /\ (0 <= x /\ x < SampleUnit) => pcm[i] = TruncDiv(x * PosScale, SampleUnit)

\* C14 witness: a window with a sample below -1 and a sample above 1 was
\* converted to the two ends of the range.
C14_Witness ==
  /\ Len(pcm) = 2
  /\ window[1] < 0 - SampleUnit /\ pcm[1] = Int16Min
  /\ window[2] > SampleUnit /\ pcm[2] = Int16Max

\* C15: while the scheduler is speaking (isPlaying true) with a chunk it has
\* started, a completion timer is pending: with no further chunk and no
\* endCall only such a timer declares the completion (isPlaying false,
\* ConversationState idle).
C15_CompletionPending ==
  (isPlaying /\ sources # << >>) => \E t \in timers : t.kind = "complete"

\* C16: a chunk that is scheduled starts no earlier than the start plus the
\* duration minus the overlap of any chunk the same socket delivered before
\* it, with no endCall between the two. Stated for steps at which no chunk
\* shorter than the overlap is among the chunks still to finish.
C16_BackToBack ==
  [][ (scheduled' = scheduled + 1
       /\ \A k \in 1..Len(sources) : sources[k].dur >= Overlap) =>
        LET second == sources'[Len(sources')]
        IN \A i \in 1..Len(sources) :
             (sources[i].call = second.call /\ ~sources[i].ended) =>
               second.start >= sources[i].start + sources[i].dur - Overlap ]_vars

\* C17 as stated: every step leaves the queue empty, and a message whose
\* chunk was pushed and made the scheduler start (isPlaying becomes true)
\* has had that chunk scheduled, once, within its handling.
C17_QueueDrainedInHandler ==
  [][ /\ audioQueue' = << >>
      /\ (last'.op = "onmessage" /\ ~isPlaying /\ isPlaying') =>
           /\ Len(sources') = Len(sources) + 1
           /\ scheduled' = scheduled + 1 ]_vars

\* The queue is empty whenever no handler runs.
QueueEmpty == audioQueue = << >>

\* C17 amended: the queue is empty whenever no handler runs, and a message
\* handler schedules, once and behind the chunks scheduled before, exactly
\* the chunk of a response.audio.delta that decodes to at least one sample;
\* it schedules nothing else.
C17_QueueEmptyBetweenHandlers ==
  /\ []QueueEmpty
  /\ [][ (last'.op = "onmessage" /\ now' = now) =>
           IF scheduled' = scheduled + 1
           THEN /\ Len(sources') = Len(sources) + 1
                /\ SubSeq(sources', 1, Len(sources)) = sources
           ELSE sources' = sources ]_vars

\* C17 witness: a chunk was handled while an earlier chunk was still to
\* finish; it is scheduled behind it and the queue is empty.
C17_Witness ==
  /\ last.op = "onmessage" /\ last.type = Delta
  /\ Len(sources) >= 2 /\ isPlaying
  /\ sources[Len(sources)].start > now
  /\ QueueEmpty

\* C18: the error or close event of a socket that endCall has closed, in a
\* call started after that endCall (startCall was invoked since and its
\* socket is in wsRef), leaves wsRef and the state of that socket alone and
\* resets none of ConnectionState, ConversationState and isPlaying.
C18_StaleCallbackHarmless ==
  [][ (/\ last'.op \in TransportOps
       /\ sock[last'.ws] = "closing" /\ sock'[last'.ws] = "closed"
       /\ ~ended /\ wsRef # NoSocket /\ wsRef # last'.ws) =>
        /\ wsRef' = wsRef
        /\ sock'[wsRef] = sock[wsRef]
        /\ UNCHANGED << connectionState, conversationState, isPlaying >> ]_vars

\* The sockets that are connecting or open.
Live == {i \in SocketIds : sock[i] \in {"connecting", "open"}}

\* C19: while the component is mounted at most one socket is connecting or
\* open, and none is when ConnectionState is disconnected and no startCall
\* is in progress.
C19_AtMostOneSession ==
  mounted =>
    /\ Cardinality(Live) <= 1
    /\ (connectionState = "disconnected" /\ pendingMedia = 0) => Live = {}

\* C20: when the response.create timer of a socket fires, the request is
\* sent only on that socket and only if it is open, and it is not sent if
\* endCall has run since the timer was armed; every socket has at most one
\* such timer.
C20_CreateOnlyInLiveCall ==
  [][ /\ \A t1, t2 \in timers :
           (t1.kind = "create" /\ t2.kind = "create" /\ t1.ws = t2.ws) => t1 = t2
      /\ (last'.op = "response.create" /\ timers' # timers) =>
           LET t == CHOOSE x \in timers : x \notin timers'
           IN /\ last'.ws = t.ws
              /\ last'.type = "sent" => (sock[t.ws] = "open" /\ ~t.ended) ]_vars

====
